---- MODULE Spec2Model ----
(***************************************************************************)
(* Model of the OpenGL renderer of inox2d                                   *)
(* (src/src/renderers/opengl/mod.rs): the draw-state cache GlCache, the     *)
(* load-time planner OpenglRenderer::new, and the per-frame drawing engine  *)
(* draw_model / draw_node / draw_part / draw_part_mask / draw_composite.    *)
(***************************************************************************)
EXTENDS Integers, Sequences, FiniteSets, TLC

(***************************************************************************)
(* Bounds of the model.                                                    *)
(***************************************************************************)
\* camera components (position, rotation, scale) range over 0..MaxCoord
MaxCoord == 1
\* viewport width and height range over 1..MaxDim
MaxDim == 2
\* texture indices range over 0..MaxTex
MaxTex == 1

\* Option<T>: None is the empty tuple, Some(v) the one-element tuple
None == <<>>

Some(v) == <<v>>

(***************************************************************************)
(* Values handled by the draw-state cache.                                 *)
(***************************************************************************)
Cameras == [position : 0..MaxCoord, rotation : 0..MaxCoord, scale : 0..MaxCoord]

Viewports == (1..MaxDim) \X (1..MaxDim)

BlendModes ==
    {"Normal", "Multiply", "ColorDodge", "LinearDodge", "Screen",
     "ClipToLower", "SliceFromLower"}

Programs == {"part_shader", "part_mask_shader", "composite_shader", "composite_mask_shader"}

TexIndices == 0..MaxTex

\* #[derive(Default)] GlCache: every field is None
GlCacheDefault ==
    [camera |-> None, viewport |-> None, blend_mode |-> None,
     program |-> None, albedo |-> None]

(***************************************************************************)
(* GlCache::update_*.  Each operator returns the cache after the call and  *)
(* the returned bool.                                                      *)
(***************************************************************************)
\* update_camera that leaves the scale out of the comparison
update_camera_ignoring_scale(c, camera) ==
    IF c.camera # None
    THEN LET prev == c.camera[1]
             changed == prev.position # camera.position \/ prev.rotation # camera.rotation
         IN [cache |-> [c EXCEPT !.camera =
                          Some([prev EXCEPT !.position = camera.position,
                                            !.rotation = camera.rotation])],
             changed |-> changed]
    ELSE [cache |-> [c EXCEPT !.camera = Some(camera)], changed |-> TRUE]

update_camera(c, camera) ==
    IF c.camera # None
    THEN LET prev == c.camera[1]
             p1 == IF prev.position # camera.position
                   THEN [prev EXCEPT !.position = camera.position] ELSE prev
             p2 == IF p1.rotation # camera.rotation
                   THEN [p1 EXCEPT !.rotation = camera.rotation] ELSE p1
             p3 == IF p2.scale # camera.scale
                   THEN [p2 EXCEPT !.scale = camera.scale] ELSE p2
         IN [cache |-> [c EXCEPT !.camera = Some(p3)],
             changed |-> (prev.position # camera.position)
                         \/ (prev.rotation # camera.rotation)
                         \/ (prev.scale # camera.scale)]
    ELSE [cache |-> [c EXCEPT !.camera = Some(camera)], changed |-> TRUE]

update_viewport(c, viewport) ==
    [cache |-> [c EXCEPT !.viewport = Some(viewport)],
     changed |-> IF c.viewport # None THEN c.viewport[1] # viewport ELSE TRUE]

update_blend_mode(c, blend_mode) ==
    [cache |-> [c EXCEPT !.blend_mode = Some(blend_mode)],
     changed |-> IF c.blend_mode # None THEN c.blend_mode[1] # blend_mode ELSE TRUE]

update_program(c, program) ==
    [cache |-> [c EXCEPT !.program = Some(program)],
     changed |-> IF c.program # None THEN c.program[1] # program ELSE TRUE]

update_albedo(c, albedo) ==
    [cache |-> [c EXCEPT !.albedo = Some(albedo)],
     changed |-> IF c.albedo # None THEN c.albedo[1] # albedo ELSE TRUE]

(***************************************************************************)
(* The node hierarchy handed to OpenglRenderer::new.                       *)
(***************************************************************************)
\* number of nodes of the hierarchy
NumNodes == 4
\* composites plus mask references of one hierarchy
MaxRefs == 2

Nodes == 1..NumNodes

\* InoxData variants the renderer distinguishes: Part, Composite, anything else
Kinds == {"Part", "Composite", "Node"}

MaskModes == {"Mask", "Dodge"}

\* u16 arithmetic of the index offsets
U16 == 65536

\* the ownership tree: parent[n] = 0 when n has no parent among Nodes (it is
\* the root, or a child of a plain root node, which draws nothing and is left
\* out of Nodes)
RECURSIVE Ancestors(_, _, _)
Ancestors(parent, n, k) ==
    IF k = 0 \/ parent[n] = 0 THEN {}
    ELSE {parent[n]} \cup Ancestors(parent, parent[n], k - 1)

Trees ==
    {parent \in [Nodes -> 0..NumNodes] :
        \A n \in Nodes : n \notin Ancestors(parent, n, NumNodes)}

Descendants(parent, c) == {n \in Nodes : c \in Ancestors(parent, n, NumNodes)}

\* a set of node ids in z-sort order; ids are opaque, so they are numbered in
\* z-sort order
RECURSIVE SortedSeq(_)
SortedSeq(S) ==
    IF S = {} THEN <<>>
    ELSE LET m == CHOOSE x \in S : \A y \in S : x <= y
         IN <<m>> \o SortedSeq(S \ {m})

\* nodes.zsorted_root(): the nodes that are not below a composite
zsorted_root(parent, kinds) ==
    SortedSeq({n \in Nodes :
                 \A a \in Ancestors(parent, n, NumNodes) : kinds[a] # "Composite"})

\* nodes.zsorted_child(id): the node itself and the nodes below it
zsorted_child(parent, c) == SortedSeq({c} \cup Descendants(parent, c))

RECURSIVE SeqsUpTo(_, _)
SeqsUpTo(S, n) ==
    IF n = 0 THEN {<<>>}
    ELSE LET shorter == SeqsUpTo(S, n - 1)
         IN shorter \cup {Append(q, x) : q \in {t \in shorter : Len(t) = n - 1}, x \in S}

RECURSIVE MasksOf(_, _)
MasksOf(refs, n) ==
    IF refs = <<>> THEN <<>>
    ELSE LET rest == MasksOf(Tail(refs), n)
         IN IF Head(refs).owner = n
            THEN <<[source |-> Head(refs).source, mode |-> Head(refs).mode]>> \o rest
            ELSE rest

\* index count of the mesh of each part
MeshSizes == {[n \in Nodes |-> 3 * n]}

(***************************************************************************)
(* The OpenGL context: the state the renderer's calls read and write, and  *)
(* the list of calls issued since the current operation began.             *)
(***************************************************************************)
\* a pixel is identified by the set of parts whose own mesh covers it
PixelClasses == SUBSET Nodes

Framebuffers == {"default", "composite_framebuffer"}

\* stencil value that is not determined
Undef == -1

\* owner of the six quad indices of InoxGlBuffersBuilder::with_quad()
Quad == 0

FullMask == 255

GlInit ==
    [blend |-> FALSE, blend_equation |-> "FUNC_ADD",
     blend_src |-> "ONE", blend_dst |-> "ZERO",
     stencil_test |-> FALSE, stencil_func |-> "ALWAYS", stencil_ref |-> 0,
     stencil_mask |-> FullMask, stencil_op |-> "KEEP", clear_stencil |-> 0,
     color_mask |-> TRUE, draw_framebuffer |-> "default",
     program |-> None, vertex_array |-> None, active_texture |-> 0,
     textures |-> [u \in 0..2 |-> None],
     mvp |-> [p \in Programs |-> None],
     viewport |-> None,
     stencil |-> [fb \in Framebuffers |-> [px \in PixelClasses |-> Undef]],
     calls |-> <<>>]

gl_call(g, name) == [g EXCEPT !.calls = Append(@, name)]

gl_enable(g, cap) ==
    gl_call(IF cap = "BLEND" THEN [g EXCEPT !.blend = TRUE]
            ELSE [g EXCEPT !.stencil_test = TRUE], "enable")

gl_disable(g, cap) ==
    gl_call(IF cap = "BLEND" THEN [g EXCEPT !.blend = FALSE]
            ELSE [g EXCEPT !.stencil_test = FALSE], "disable")

gl_clear_stencil(g, s) == gl_call([g EXCEPT !.clear_stencil = s], "clear_stencil")

\* gl.clear(STENCIL_BUFFER_BIT): the stencil write mask applies to the clear
gl_clear_stencil_buffer(g) ==
    gl_call([g EXCEPT !.stencil[g.draw_framebuffer] =
                [px \in PixelClasses |->
                    IF g.stencil_mask = FullMask THEN g.clear_stencil
                    ELSE IF g.stencil_mask = 0 THEN @[px]
                    ELSE Undef]], "clear")

\* gl.clear(COLOR_BUFFER_BIT)
gl_clear_color_buffer(g) == gl_call(g, "clear")

gl_color_mask(g, b) == gl_call([g EXCEPT !.color_mask = b], "color_mask")

gl_stencil_op(g, dppass) == gl_call([g EXCEPT !.stencil_op = dppass], "stencil_op")

gl_stencil_func(g, func, ref) ==
    gl_call([g EXCEPT !.stencil_func = func, !.stencil_ref = ref], "stencil_func")

gl_stencil_mask(g, m) == gl_call([g EXCEPT !.stencil_mask = m], "stencil_mask")

gl_blend_equation(g, eq) == gl_call([g EXCEPT !.blend_equation = eq], "blend_equation")

gl_blend_func(g, src, dst) ==
    gl_call([g EXCEPT !.blend_src = src, !.blend_dst = dst], "blend_func")

gl_use_program(g, program) == gl_call([g EXCEPT !.program = Some(program)], "use_program")

gl_uniform_mvp(g, program, matrix) ==
    gl_call([g EXCEPT !.mvp[program] = Some(matrix)], "uniform_matrix")

gl_uniform(g) == gl_call(g, "uniform")

gl_bind_vertex_array(g, bufs) ==
    gl_call([g EXCEPT !.vertex_array = Some(bufs)], "bind_vertex_array")

gl_bind_draw_framebuffer(g, fb) ==
    gl_call([g EXCEPT !.draw_framebuffer = fb], "bind_framebuffer")

gl_active_texture(g, unit) == gl_call([g EXCEPT !.active_texture = unit], "active_texture")

gl_bind_texture(g, tex) ==
    gl_call([g EXCEPT !.textures[g.active_texture] = Some(tex)], "bind_texture")

\* Texture::bind_on(gl, unit)
bind_on(g, tex, unit) == gl_bind_texture(gl_active_texture(g, unit), tex)

(***************************************************************************)
(* State.                                                                   *)
(***************************************************************************)
VARIABLES
    \* the node hierarchy (InoxNodeTree) and its node data
    kind, masks, mesh, blend_mode, part_tex, zroot, zchild,
    \* the model's texture list: what decoding and uploading each texture gives
    model_textures,
    \* OpenglRenderer
    camera, viewport, cache, is_compositing, part_bufs, composite_bufs,
    textures, nodes_zsorted, nodes_draw_info,
    \* the OpenGL context
    gl,
    \* control: what the renderer is doing, and the call stack of draw_model
    status, stack,
    \* record of the draws of the current frame and of the last finished step
    trace, last_draw, last_step,
    \* a GlCache driven directly, with the arguments of its previous calls
    glcache, called, last_call

hierarchy == <<kind, masks, mesh, blend_mode, part_tex, zroot, zchild, model_textures>>

renderer ==
    <<camera, viewport, cache, is_compositing, part_bufs, composite_bufs,
      textures, nodes_zsorted, nodes_draw_info>>

control == <<status, stack, trace, last_draw, last_step>>

harness == <<glcache, called, last_call>>

vars == <<hierarchy, renderer, gl, control, harness>>

(***************************************************************************)
(* Geometry buffers (InoxGlBuffersBuilder): a buffer is the list of the    *)
(* meshes pushed into it, each with its owner and its index count.         *)
(***************************************************************************)
RECURSIVE BufLen(_)
BufLen(buf) == IF buf = <<>> THEN 0 ELSE Head(buf).len + BufLen(Tail(buf))

\* InoxGlBuffersBuilder::new()
new_bufs == <<>>

\* InoxGlBuffersBuilder::with_quad(): the quad of composite rendering comes first
with_quad == <<[owner |-> Quad, len |-> 6]>>

\* InoxGlBuffersBuilder::push(mesh): appends the mesh, returns its index offset
push(buf, owner, len) ==
    [bufs |-> Append(buf, [owner |-> owner, len |-> len]),
     index_offset |-> BufLen(buf) % U16]

(***************************************************************************)
(* NodeDrawInfo, and the planning loop of OpenglRenderer::new.             *)
(***************************************************************************)
NoDrawInfo == [tag |-> "Absent", index_offset |-> 0, children |-> <<>>]

PartInfo(index_offset) == [tag |-> "Part", index_offset |-> index_offset, children |-> <<>>]

CompositeInfo(children) == [tag |-> "Composite", index_offset |-> 0, children |-> children]

\* the child list kept as the hierarchy gives it, the composite itself included
filter_self_keeping_all(children, uuid) == children

\* .filter(|uuid| *uuid != node.uuid)
filter_self(children, uuid) == SelectSeq(children, LAMBDA c : c # uuid)

\* a composite child's mesh pushed into the root region
push_child_into_part_bufs(st, uuid) ==
    LET pushed == push(st.part_bufs, uuid, mesh[uuid])
    IN IF kind[uuid] = "Part"
       THEN [st EXCEPT !.part_bufs = pushed.bufs,
                       !.info[uuid] = PartInfo(pushed.index_offset)]
       ELSE st

\* one round of the loop over a composite's children: a part's mesh goes into
\* composite bufs
push_child(st, uuid) ==
    LET pushed == push(st.composite_bufs, uuid, mesh[uuid])
    IN IF kind[uuid] = "Part"
       THEN [st EXCEPT !.composite_bufs = pushed.bufs,
                       !.info[uuid] = PartInfo(pushed.index_offset)]
       ELSE st

\* put composite children's meshes into composite bufs
RECURSIVE push_children(_, _)
push_children(children, st) ==
    IF children = <<>> THEN st
    ELSE push_children(Tail(children), push_child(st, Head(children)))

\* for &uuid in &nodes_zsorted
RECURSIVE plan(_, _)
plan(order, st) ==
    IF order = <<>> THEN st
    ELSE LET uuid == Head(order)
             pushed == push(st.part_bufs, uuid, mesh[uuid])
             children == filter_self(zchild[uuid], uuid)
             after == push_children(children, st)
         IN plan(Tail(order),
                CASE kind[uuid] = "Part" ->
                       [st EXCEPT !.part_bufs = pushed.bufs,
                                  !.info[uuid] = PartInfo(pushed.index_offset)]
                  [] kind[uuid] = "Composite" ->
                       [after EXCEPT !.info[uuid] = CompositeInfo(children)]
                  [] OTHER -> st)

\* composite bufs that start without the quad
PlanStart_without_quad ==
    [part_bufs |-> new_bufs, composite_bufs |-> new_bufs,
     info |-> [n \in Nodes |-> NoDrawInfo]]

PlanStart ==
    [part_bufs |-> new_bufs, composite_bufs |-> with_quad,
     info |-> [n \in Nodes |-> NoDrawInfo]]

(***************************************************************************)
(* Renderer helpers: shaders, camera, blend modes, textures, framebuffers. *)
(***************************************************************************)
bind_shader(g, shader) == gl_use_program(g, shader)

\* self.camera.matrix(self.viewport.as_vec2())
matrix(cam, vp) == <<cam, vp>>

\* Camera::default()
CameraDefault == [position |-> 0, rotation |-> 0, scale |-> 1]

\* OpenglRenderer::update_camera: the viewport is compared only when the camera
\* did not change (short-circuit &&)
renderer_update_camera(cam, vp, c, g) ==
    LET a == update_camera(c, cam)
        b == update_viewport(a.cache, vp)
        c1 == IF a.changed THEN a.cache ELSE b.cache
        m == matrix(cam, vp)
        g1 == gl_uniform_mvp(bind_shader(g, "part_mask_shader"), "part_mask_shader", m)
        g2 == gl_uniform_mvp(bind_shader(g1, "part_shader"), "part_shader", m)
        g3 == gl_uniform_mvp(bind_shader(g2, "composite_shader"), "composite_shader", m)
        g4 == gl_uniform_mvp(bind_shader(g3, "composite_mask_shader"),
                             "composite_mask_shader", m)
    IN IF ~a.changed /\ ~b.changed
       THEN [cache |-> c1, gl |-> g, changed |-> FALSE]
       ELSE [cache |-> c1, gl |-> g4, changed |-> TRUE]

\* a mapping that gives Screen the triple of LinearDodge
blend_config_screen_as_linear_dodge(mode) ==
    IF mode = "SliceFromLower"
    THEN [equation |-> "FUNC_SUBTRACT", src |-> "ONE_MINUS_DST_ALPHA",
          dst |-> "ONE_MINUS_SRC_ALPHA"]
    ELSE IF mode \in {"Multiply", "ColorDodge"}
    THEN [equation |-> "FUNC_ADD", src |-> "DST_COLOR",
          dst |-> IF mode = "Multiply" THEN "ONE_MINUS_SRC_ALPHA" ELSE "ONE"]
    ELSE IF mode = "ClipToLower"
    THEN [equation |-> "FUNC_ADD", src |-> "DST_ALPHA", dst |-> "ONE_MINUS_SRC_ALPHA"]
    ELSE [equation |-> "FUNC_ADD", src |-> "ONE",
          dst |-> IF mode = "Normal" THEN "ONE_MINUS_SRC_ALPHA" ELSE "ONE"]

\* the (equation, source factor, destination factor) of each blend mode
blend_config(mode) ==
    CASE mode = "Normal" ->
           [equation |-> "FUNC_ADD", src |-> "ONE", dst |-> "ONE_MINUS_SRC_ALPHA"]
      [] mode = "Multiply" ->
           [equation |-> "FUNC_ADD", src |-> "DST_COLOR", dst |-> "ONE_MINUS_SRC_ALPHA"]
      [] mode = "ColorDodge" ->
           [equation |-> "FUNC_ADD", src |-> "DST_COLOR", dst |-> "ONE"]
      [] mode = "LinearDodge" ->
           [equation |-> "FUNC_ADD", src |-> "ONE", dst |-> "ONE"]
      [] mode = "Screen" ->
           [equation |-> "FUNC_ADD", src |-> "ONE", dst |-> "ONE_MINUS_SRC_COLOR"]
      [] mode = "ClipToLower" ->
           [equation |-> "FUNC_ADD", src |-> "DST_ALPHA", dst |-> "ONE_MINUS_SRC_ALPHA"]
      [] mode = "SliceFromLower" ->
           [equation |-> "FUNC_SUBTRACT", src |-> "ONE_MINUS_DST_ALPHA",
            dst |-> "ONE_MINUS_SRC_ALPHA"]

set_blend_mode(c, g, mode) ==
    LET u == update_blend_mode(c, mode)
        b == blend_config(mode)
    IN IF ~u.changed THEN [cache |-> u.cache, gl |-> g]
       ELSE [cache |-> u.cache,
             gl |-> gl_blend_func(gl_blend_equation(g, b.equation), b.src, b.dst)]

\* self.textures[i]: panics when i is out of range
HasTexture(texs, i) == i + 1 <= Len(texs)

bind_part_textures(c, g, texs, part) ==
    LET u == update_albedo(c, part.tex_albedo)
        g1 == bind_on(g, texs[part.tex_albedo + 1], 0)
        g2 == bind_on(g1, texs[part.tex_bumpmap + 1], 1)
        g3 == bind_on(g2, texs[part.tex_emissive + 1], 2)
    IN IF ~u.changed THEN [cache |-> u.cache, gl |-> g, panicked |-> FALSE]
       ELSE IF ~HasTexture(texs, part.tex_albedo)
            THEN [cache |-> u.cache, gl |-> g, panicked |-> TRUE]
       ELSE IF ~HasTexture(texs, part.tex_bumpmap)
            THEN [cache |-> u.cache, gl |-> g1, panicked |-> TRUE]
       ELSE IF ~HasTexture(texs, part.tex_emissive)
            THEN [cache |-> u.cache, gl |-> g2, panicked |-> TRUE]
       ELSE [cache |-> u.cache, gl |-> g3, panicked |-> FALSE]

\* texture::upload_empty(gl, tex, w, h, ty)
upload_empty(g, tex) == gl_call(gl_bind_texture(g, tex), "tex_image_2d")

attach_framebuffer_textures(g) ==
    LET g1 == gl_bind_draw_framebuffer(g, "composite_framebuffer")
        g2 == gl_call(gl_call(gl_call(gl_call(g1, "framebuffer_texture_2d"),
                                      "framebuffer_texture_2d"),
                              "framebuffer_texture_2d"),
                      "framebuffer_texture_2d")
    IN gl_bind_draw_framebuffer(g2, "default")

resize(cam, c, g, w, h) ==
    LET g1 == gl_call([g EXCEPT !.viewport = Some(<<w, h>>)], "viewport")
        g2 == upload_empty(g1, <<"cf_albedo", 0>>)
        g3 == upload_empty(g2, <<"cf_emissive", 0>>)
        g4 == upload_empty(g3, <<"cf_bump", 0>>)
        g5 == gl_call(gl_bind_texture(g4, <<"cf_stencil", 0>>), "tex_image_2d")
        g6 == attach_framebuffer_textures(g5)
        u == renderer_update_camera(cam, <<w, h>>, c, g6)
    IN [viewport |-> <<w, h>>, cache |-> u.cache, gl |-> u.gl]

\* the outcome of decoding and uploading one model texture
TextureOutcomes == {"ok", "decode_error", "upload_error"}

\* the upload loop over the decoded images: the first upload error returns
RECURSIVE upload_images(_, _)
upload_images(images, texs) ==
    IF images = <<>> THEN texs
    ELSE IF Head(images).outcome = "upload_error" THEN texs
    ELSE upload_images(Tail(images), Append(texs, <<"texture", Head(images).index>>))

\* par_iter().filter_map(decode).collect(): the decoded images, in list order
RECURSIVE decoded_images(_, _)
decoded_images(mtexs, i) ==
    IF i > Len(mtexs) THEN <<>>
    ELSE IF mtexs[i] = "decode_error" THEN decoded_images(mtexs, i + 1)
    ELSE <<[index |-> i - 1, outcome |-> mtexs[i]]>>
            \o decoded_images(mtexs, i + 1)

upload_model_textures(texs, mtexs) ==
    upload_images(decoded_images(mtexs, 1), texs)

(***************************************************************************)
(* gl.draw_elements: which pixels the draw covers, which fragments pass    *)
(* the stencil test, what is written to the stencil and colour buffers.    *)
(* Coverage and results are "yes", "no" or "maybe" (not determined).       *)
(***************************************************************************)
And3(a, b) ==
    IF a = "no" \/ b = "no" THEN "no"
    ELSE IF a = "yes" /\ b = "yes" THEN "yes" ELSE "maybe"

\* the indices offset .. offset+count-1 of the buffer are one whole mesh of owner
ExactMesh(buf, owner, count, offset) ==
    \E i \in 1..Len(buf) :
        /\ buf[i].owner = owner
        /\ buf[i].len = count
        /\ BufLen(SubSeq(buf, 1, i - 1)) = offset

\* the pixels covered by the triangles drawn: the owner's own pixels when its
\* mesh is what the bound buffer holds at the offset, else not determined
Coverage(buf, owner, count, offset) ==
    [px \in PixelClasses |->
        IF ExactMesh(buf, owner, count, offset)
        THEN (IF owner = Quad \/ owner \in px THEN "yes" ELSE "no")
        ELSE "maybe"]

StencilPass(g, value) ==
    IF ~g.stencil_test \/ g.stencil_func = "ALWAYS" THEN "yes"
    ELSE IF value = Undef THEN "maybe"
    ELSE IF value = g.stencil_ref THEN "yes" ELSE "no"

draw_elements(g, bufs, owner, count, offset) ==
    LET buf == bufs[g.vertex_array[1]]
        cover == Coverage(buf, owner, count, offset)
        before == g.stencil[g.draw_framebuffer]
        frag == [px \in PixelClasses |-> And3(cover[px], StencilPass(g, before[px]))]
        writes == g.stencil_test /\ g.stencil_mask # 0 /\ g.stencil_op = "REPLACE"
        after == [px \in PixelClasses |->
                    IF ~writes \/ frag[px] = "no" THEN before[px]
                    ELSE IF frag[px] = "yes" \/ before[px] = g.stencil_ref
                         THEN g.stencil_ref
                    ELSE Undef]
    IN [gl |-> gl_call([g EXCEPT !.stencil[g.draw_framebuffer] = after], "draw_elements"),
        exact |-> ExactMesh(buf, owner, count, offset),
        color |-> [px \in PixelClasses |-> IF g.color_mask THEN frag[px] ELSE "no"]]

(***************************************************************************)
(* Control: the call stack of draw_model.                                  *)
(***************************************************************************)
\* deepest call chain of a hierarchy in which no node is entered twice
MaxDepth == NumNodes + 1

Frame(fn, node, cc, is_mask) ==
    [fn |-> fn, node |-> node, pc |-> "enter", i |-> 1,
     is_composite_child |-> cc, is_mask |-> is_mask]

Top == stack[Len(stack)]

Replace(f) == [stack EXCEPT ![Len(stack)] = f]

Pop == SubSeq(stack, 1, Len(stack) - 1)

\* draw_node that drops the is_composite_child flag
draw_node_dropping_flag(uuid, ndi, cc, is_mask) ==
    IF ndi.tag = "Part" THEN Frame("draw_part", uuid, FALSE, is_mask)
    ELSE Frame("draw_composite", uuid, FALSE, is_mask)

\* draw_node: dispatch on the draw descriptor
draw_node(uuid, ndi, cc, is_mask) ==
    IF ndi.tag = "Part" THEN Frame("draw_part", uuid, cc, is_mask)
    ELSE Frame("draw_composite", uuid, cc, is_mask)

\* the caller's frame becomes f and the callee is entered
Call(f, callee) ==
    IF Len(stack) >= MaxDepth
    THEN /\ status' = "stack_overflow"
         /\ stack' = Replace(f)
    ELSE /\ status' = status
         /\ stack' = Append(Replace(f), callee)

NoDraw ==
    [what |-> "none", node |-> 0, is_mask |-> FALSE, is_composite_child |-> FALSE,
     masked |-> FALSE, exact |-> FALSE, count |-> 0, offset |-> 0,
     gl |-> GlInit, color |-> [px \in PixelClasses |-> "no"]]

NoStep == [op |-> "none", node |-> 0, was_compositing |-> FALSE]

Event(ev, node, f, g) ==
    [ev |-> ev, node |-> node, is_composite_child |-> f.is_composite_child,
     is_mask |-> f.is_mask, target |-> g.draw_framebuffer]

Fixed ==
    UNCHANGED <<hierarchy, camera, viewport, part_bufs, composite_bufs, textures,
                nodes_zsorted, nodes_draw_info, harness>>

(***************************************************************************)
(* Construction and texture upload.                                        *)
(***************************************************************************)
\* OpenglRenderer::new(gl, viewport, nodes)
new ==
    /\ status = "unconstructed"
    /\ LET st == plan(zroot, PlanStart)
           r == resize(CameraDefault, GlCacheDefault, GlInit, viewport[1], viewport[2])
       IN /\ nodes_zsorted' = zroot
          /\ nodes_draw_info' = st.info
          /\ part_bufs' = st.part_bufs
          /\ composite_bufs' = st.composite_bufs
          /\ camera' = CameraDefault
          /\ viewport' = r.viewport
          /\ cache' = r.cache
          /\ is_compositing' = FALSE
          /\ textures' = <<>>
          /\ gl' = attach_framebuffer_textures(r.gl)
    /\ status' = "constructed"
    /\ last_step' = [op |-> "new", node |-> 0, was_compositing |-> FALSE]
    /\ UNCHANGED <<hierarchy, stack, trace, last_draw, harness>>

\* the model's texture list, every texture decoding and uploading
AllTexturesOk == [i \in 1..(MaxTex + 1) |-> "ok"]

\* upload_model_textures(model_textures)
upload_textures ==
    /\ status = "constructed"
    /\ textures' = upload_model_textures(textures, model_textures)
    /\ status' = "idle"
    /\ last_step' = [op |-> "upload_model_textures", node |-> 0, was_compositing |-> FALSE]
    /\ UNCHANGED <<hierarchy, camera, viewport, cache, is_compositing, part_bufs,
                   composite_bufs, nodes_zsorted, nodes_draw_info, gl, stack, trace,
                   last_draw, harness>>

(***************************************************************************)
(* draw_model and the loop over the draw order.                            *)
(***************************************************************************)
push_debug_group(g) == gl_call(g, "push_debug_group")

pop_debug_group(g) == gl_call(g, "pop_debug_group")

draw_model ==
    /\ status = "idle"
    /\ LET u == renderer_update_camera(camera, viewport, cache, [gl EXCEPT !.calls = <<>>])
       IN /\ cache' = u.cache
          /\ gl' = gl_enable(u.gl, "BLEND")
    /\ status' = "drawing"
    /\ stack' = <<Frame("draw_model", 0, FALSE, FALSE)>>
    /\ trace' = <<>>
    /\ last_draw' = NoDraw
    /\ last_step' = [op |-> "draw_model", node |-> 0, was_compositing |-> is_compositing]
    /\ UNCHANGED is_compositing
    /\ Fixed

draw_model_loop ==
    /\ status = "drawing"
    /\ Top.fn = "draw_model"
    /\ IF Top.i > Len(nodes_zsorted)
       THEN /\ stack' = <<>>
            /\ status' = "idle"
       ELSE LET uuid == nodes_zsorted[Top.i]
                ntr == nodes_draw_info[uuid]
                f == [Top EXCEPT !.i = @ + 1]
            IN IF ntr.tag # "Absent"
               THEN Call(f, draw_node(uuid, ntr, FALSE, FALSE))
               ELSE stack' = Replace(f) /\ status' = status
    /\ last_step' = [op |-> "draw_model_loop", node |-> 0, was_compositing |-> is_compositing]
    /\ UNCHANGED <<cache, gl, is_compositing, trace, last_draw>>
    /\ Fixed

(***************************************************************************)
(* Part rendering.                                                         *)
(***************************************************************************)
\* DrawState::has_masks()
has_masks(n) == masks[n] # <<>>

\* draw_part, up to the loop over the masks
draw_part_begin_mask ==
    /\ status = "drawing"
    /\ Top.fn = "draw_part" /\ Top.pc = "enter"
    /\ masks[Top.node] # <<>>
    /\ LET g1 == push_debug_group(push_debug_group(gl))
           g2 == gl_enable(g1, "STENCIL_TEST")
           g3 == gl_clear_stencil(g2, IF has_masks(Top.node) THEN 0 ELSE 1)
       IN gl' = gl_clear_stencil_buffer(g3)
    /\ stack' = Replace([Top EXCEPT !.pc = "masks", !.i = 1])
    /\ last_step' = [op |-> "draw_part_begin_mask", node |-> Top.node,
                     was_compositing |-> is_compositing]
    /\ UNCHANGED <<cache, is_compositing, status, trace, last_draw>>
    /\ Fixed

\* draw_part_mask, up to the draw of the mask source
begin_draw_mask(g, mask) ==
    LET g1 == gl_color_mask(g, FALSE)
        g2 == gl_stencil_op(g1, "REPLACE")
        g3 == gl_stencil_func(g2, "ALWAYS", IF mask.mode = "Mask" THEN 1 ELSE 0)
    IN gl_stencil_mask(g3, FullMask)

draw_part_mask ==
    /\ status = "drawing"
    /\ Top.fn = "draw_part" /\ Top.pc = "masks"
    /\ Top.i <= Len(masks[Top.node])
    /\ LET mask == masks[Top.node][Top.i]
           ndi == nodes_draw_info[mask.source]
       IN /\ gl' = begin_draw_mask(gl, mask)
          /\ IF ndi.tag = "Absent"
             THEN status' = "panicked" /\ stack' = stack
             ELSE Call([Top EXCEPT !.pc = "mask_ret"],
                       draw_node(mask.source, ndi, Top.is_composite_child, TRUE))
    /\ last_step' = [op |-> "draw_part_mask", node |-> Top.node,
                     was_compositing |-> is_compositing]
    /\ UNCHANGED <<cache, is_compositing, trace, last_draw>>
    /\ Fixed

\* draw_part_mask, after the draw of the mask source
draw_part_mask_end ==
    /\ status = "drawing"
    /\ Top.fn = "draw_part" /\ Top.pc = "mask_ret"
    /\ gl' = gl_color_mask(gl, TRUE)
    /\ stack' = Replace([Top EXCEPT !.pc = "masks", !.i = @ + 1])
    /\ last_step' = [op |-> "draw_part_mask_end", node |-> Top.node,
                     was_compositing |-> is_compositing]
    /\ UNCHANGED <<cache, is_compositing, status, trace, last_draw>>
    /\ Fixed

\* begin mask content
begin_mask_content(g) ==
    gl_stencil_mask(gl_stencil_func(pop_debug_group(g), "EQUAL", 1), 0)

\* end mask
end_mask(g) ==
    gl_disable(gl_stencil_func(gl_stencil_mask(g, FullMask), "ALWAYS", 1), "STENCIL_TEST")

\* shader selection and uniforms of draw_part
part_shader_setup(g, is_mask) ==
    IF is_mask
    THEN gl_uniform(gl_uniform(bind_shader(g, "part_mask_shader")))
    ELSE gl_uniform(gl_uniform(gl_uniform(gl_uniform(bind_shader(g, "part_shader")))))

\* if is_composite_child { composite_bufs } else { part_bufs }
part_geometry(is_composite_child) ==
    IF is_composite_child THEN "composite_bufs" ELSE "part_bufs"

Bufs == [part_bufs |-> part_bufs, composite_bufs |-> composite_bufs]

\* draw_part after the masks: textures, blend mode, shader, geometry, the draw
draw_part ==
    /\ status = "drawing"
    /\ Top.fn = "draw_part"
    /\ \/ Top.pc = "enter" /\ masks[Top.node] = <<>>
       \/ Top.pc = "masks" /\ Top.i > Len(masks[Top.node])
    /\ LET node == Top.node
           masked == masks[node] # <<>>
           g0 == IF masked THEN begin_mask_content(gl) ELSE push_debug_group(gl)
           t == bind_part_textures(cache, g0, textures, part_tex[node])
           b == set_blend_mode(t.cache, t.gl, blend_mode[node])
           g1 == part_shader_setup(b.gl, Top.is_mask)
           g2 == gl_bind_vertex_array(g1, part_geometry(Top.is_composite_child))
           d == draw_elements(g2, Bufs, node, mesh[node], nodes_draw_info[node].index_offset)
           g3 == IF masked THEN end_mask(d.gl) ELSE d.gl
       IN IF t.panicked
          THEN /\ status' = "panicked"
               /\ cache' = t.cache
               /\ gl' = t.gl
               /\ UNCHANGED <<stack, trace, last_draw>>
          ELSE /\ status' = status
               /\ cache' = b.cache
               /\ gl' = pop_debug_group(g3)
               /\ stack' = Pop
               /\ trace' = Append(trace, Event("draw_part", node, Top, g2))
               /\ last_draw' =
                    [what |-> "part", node |-> node, is_mask |-> Top.is_mask,
                     is_composite_child |-> Top.is_composite_child,
                     masked |-> masked, exact |-> d.exact, count |-> mesh[node],
                     offset |-> nodes_draw_info[node].index_offset,
                     gl |-> [g2 EXCEPT !.calls = <<>>], color |-> d.color]
    /\ last_step' = [op |-> "draw_part", node |-> Top.node,
                     was_compositing |-> is_compositing]
    /\ UNCHANGED is_compositing
    /\ Fixed

(***************************************************************************)
(* Composite rendering.                                                    *)
(***************************************************************************)
\* draw_composite that goes on to begin_composite with an empty child list
draw_composite_without_skip ==
    /\ status = "drawing"
    /\ Top.fn = "draw_composite" /\ Top.pc = "enter"
    /\ stack' = Replace([Top EXCEPT !.pc = "begin"])
    /\ gl' = push_debug_group(gl)
    /\ last_step' = [op |-> "draw_composite", node |-> Top.node,
                     was_compositing |-> is_compositing]
    /\ UNCHANGED <<cache, is_compositing, status, trace, last_draw>>
    /\ Fixed

\* draw_composite, up to begin_composite: the skip of an empty child list
draw_composite ==
    /\ status = "drawing"
    /\ Top.fn = "draw_composite" /\ Top.pc = "enter"
    /\ IF nodes_draw_info[Top.node].children = <<>>
       THEN /\ stack' = Pop
            /\ gl' = gl
       ELSE /\ stack' = Replace([Top EXCEPT !.pc = "begin"])
            /\ gl' = push_debug_group(gl)
    /\ last_step' = [op |-> "draw_composite", node |-> Top.node,
                     was_compositing |-> is_compositing]
    /\ UNCHANGED <<cache, is_compositing, status, trace, last_draw>>
    /\ Fixed

\* begin_composite without the early return
begin_composite_unguarded(compositing, g) ==
    LET g1 == gl_bind_draw_framebuffer(g, "composite_framebuffer")
        g2 == gl_call(g1, "draw_buffers")
        g3 == gl_clear_color_buffer(gl_call(g2, "clear_color"))
        g4 == gl_active_texture(g3, 0)
    IN [is_compositing |-> TRUE,
        gl |-> gl_blend_func(g4, "ONE", "ONE_MINUS_SRC_ALPHA")]

\* begin_composite: if self.is_compositing { return }
begin_composite(compositing, g) ==
    IF compositing THEN [is_compositing |-> compositing, gl |-> g]
    ELSE LET g1 == gl_bind_draw_framebuffer(g, "composite_framebuffer")
             g2 == gl_call(g1, "draw_buffers")
             g3 == gl_clear_color_buffer(gl_call(g2, "clear_color"))
             g4 == gl_active_texture(g3, 0)
         IN [is_compositing |-> TRUE,
             gl |-> gl_blend_func(g4, "ONE", "ONE_MINUS_SRC_ALPHA")]

\* end_composite: if !self.is_compositing { return }
end_composite(compositing, g) ==
    IF ~compositing THEN [is_compositing |-> compositing, gl |-> g]
    ELSE LET g1 == gl_bind_draw_framebuffer(g, "default")
         IN [is_compositing |-> FALSE,
             gl |-> gl_call(gl_call(g1, "draw_buffers"), "flush")]

draw_composite_begin ==
    /\ status = "drawing"
    /\ Top.fn = "draw_composite" /\ Top.pc = "begin"
    /\ LET r == begin_composite(is_compositing, gl)
       IN /\ is_compositing' = r.is_compositing
          /\ gl' = r.gl
          /\ trace' = IF is_compositing THEN trace
                      ELSE Append(trace, Event("begin_composite", Top.node, Top, r.gl))
    /\ stack' = Replace([Top EXCEPT !.pc = "children", !.i = 1])
    /\ last_step' = [op |-> "begin_composite", node |-> Top.node,
                     was_compositing |-> is_compositing]
    /\ UNCHANGED <<cache, status, last_draw>>
    /\ Fixed

\* for uuid in children
draw_composite_child ==
    /\ status = "drawing"
    /\ Top.fn = "draw_composite" /\ Top.pc = "children"
    /\ Top.i <= Len(nodes_draw_info[Top.node].children)
    /\ LET uuid == nodes_draw_info[Top.node].children[Top.i]
           ndi == nodes_draw_info[uuid]
           f == [Top EXCEPT !.i = @ + 1]
       IN IF uuid # Top.node /\ ndi.tag # "Absent"
          THEN Call(f, draw_node(uuid, ndi, TRUE, FALSE))
          ELSE stack' = Replace(f) /\ status' = status
    /\ last_step' = [op |-> "draw_composite_child", node |-> Top.node,
                     was_compositing |-> is_compositing]
    /\ UNCHANGED <<cache, gl, is_compositing, trace, last_draw>>
    /\ Fixed

draw_composite_end ==
    /\ status = "drawing"
    /\ Top.fn = "draw_composite" /\ Top.pc = "children"
    /\ Top.i > Len(nodes_draw_info[Top.node].children)
    /\ LET r == end_composite(is_compositing, gl)
       IN /\ is_compositing' = r.is_compositing
          /\ gl' = r.gl
          /\ trace' = IF ~is_compositing THEN trace
                      ELSE Append(trace, Event("end_composite", Top.node, Top, r.gl))
    /\ stack' = Replace([Top EXCEPT !.pc = "finish"])
    /\ last_step' = [op |-> "end_composite", node |-> Top.node,
                     was_compositing |-> is_compositing]
    /\ UNCHANGED <<cache, status, last_draw>>
    /\ Fixed

\* draw_composite after end_composite: the quad that blends the result back
draw_composite_quad ==
    /\ status = "drawing"
    /\ Top.fn = "draw_composite" /\ Top.pc = "finish"
    /\ LET node == Top.node
           g1 == gl_bind_texture(gl_active_texture(gl, 0), <<"cf_albedo", 0>>)
           g2 == gl_bind_texture(gl_active_texture(g1, 1), <<"cf_emissive", 0>>)
           g3 == gl_bind_texture(gl_active_texture(g2, 2), <<"cf_bump", 0>>)
           b == set_blend_mode(cache, g3, blend_mode[node])
           g4 == gl_uniform(gl_uniform(gl_uniform(bind_shader(b.gl, "composite_shader"))))
           g5 == gl_bind_vertex_array(g4, "composite_bufs")
           d == draw_elements(g5, Bufs, Quad, 6, 0)
       IN /\ cache' = b.cache
          /\ gl' = pop_debug_group(d.gl)
          /\ trace' = Append(trace, Event("draw_quad", node, Top, g5))
          /\ last_draw' =
               [what |-> "quad", node |-> node, is_mask |-> Top.is_mask,
                is_composite_child |-> Top.is_composite_child,
                masked |-> FALSE, exact |-> d.exact, count |-> 6, offset |-> 0,
                gl |-> [g5 EXCEPT !.calls = <<>>], color |-> d.color]
    /\ stack' = Pop
    /\ last_step' = [op |-> "draw_composite_quad", node |-> Top.node,
                     was_compositing |-> is_compositing]
    /\ UNCHANGED <<is_compositing, status>>
    /\ Fixed

(***************************************************************************)
(* The public calls made between frames: camera assignment, resize,        *)
(* set_blend_mode.                                                         *)
(***************************************************************************)
\* the cameras assigned between frames
HarnessCameras == {CameraDefault, [CameraDefault EXCEPT !.position = MaxCoord]}

\* renderer.camera = cam
set_camera ==
    /\ status = "idle"
    /\ \E cam \in HarnessCameras :
        /\ cam # camera
        /\ camera' = cam
    /\ last_step' = [op |-> "set_camera", node |-> 0, was_compositing |-> is_compositing]
    /\ UNCHANGED <<hierarchy, viewport, cache, is_compositing, part_bufs, composite_bufs,
                   textures, nodes_zsorted, nodes_draw_info, gl, status, stack, trace,
                   last_draw, harness>>

\* renderer.resize(w, h)
call_resize ==
    /\ status = "idle"
    /\ \E w \in 1..MaxDim, h \in 1..MaxDim :
        LET r == resize(camera, cache, [gl EXCEPT !.calls = <<>>], w, h)
        IN /\ viewport' = r.viewport
           /\ cache' = r.cache
           /\ gl' = r.gl
           /\ last_step' = [op |-> "resize", node |-> 0,
                            was_compositing |-> is_compositing, arg |-> <<w, h>>]
    /\ UNCHANGED <<hierarchy, camera, is_compositing, part_bufs, composite_bufs,
                   textures, nodes_zsorted, nodes_draw_info, status, stack, trace,
                   last_draw, harness>>

\* renderer.set_blend_mode(mode)
call_set_blend_mode ==
    /\ status = "idle"
    /\ \E mode \in BlendModes :
        LET b == set_blend_mode(cache, [gl EXCEPT !.calls = <<>>], mode)
        IN /\ cache' = b.cache
           /\ gl' = b.gl
           /\ last_step' = [op |-> "set_blend_mode", node |-> 0,
                            was_compositing |-> is_compositing, arg |-> mode,
                            prev |-> cache.blend_mode]
    /\ UNCHANGED <<hierarchy, camera, viewport, is_compositing, part_bufs,
                   composite_bufs, textures, nodes_zsorted, nodes_draw_info, status,
                   stack, trace, last_draw, harness>>

(***************************************************************************)
(* The GlCache driven directly: any sequence of update_* calls.            *)
(***************************************************************************)
NoCall == [field |-> "none", returned |-> FALSE, first |-> FALSE, differs |-> FALSE]

NeverCalled ==
    [camera |-> None, viewport |-> None, blend_mode |-> None,
     program |-> None, albedo |-> None]

\* the record of one call: what it returned, whether it was the first call for
\* the field, whether its argument differs from that of the previous call
CallRecord(field, arg, returned) ==
    [field |-> field, returned |-> returned,
     first |-> (called[field] = None),
     differs |-> (called[field] # None /\ called[field] # Some(arg))]

cache_idle == status = "cache"

\* the blend modes and programs the calls are made with
HarnessBlendModes == {"Normal", "Multiply"}

HarnessPrograms == {"part_shader", "composite_shader"}

call_update_camera ==
    /\ cache_idle
    /\ \E arg \in Cameras :
        LET r == update_camera(glcache, arg)
        IN /\ glcache' = r.cache
           /\ last_call' = CallRecord("camera", arg, r.changed)
           /\ called' = [called EXCEPT !.camera = Some(arg)]
    /\ UNCHANGED <<hierarchy, renderer, gl, control>>

call_update_viewport ==
    /\ cache_idle
    /\ \E arg \in Viewports :
        LET r == update_viewport(glcache, arg)
        IN /\ glcache' = r.cache
           /\ last_call' = CallRecord("viewport", arg, r.changed)
           /\ called' = [called EXCEPT !.viewport = Some(arg)]
    /\ UNCHANGED <<hierarchy, renderer, gl, control>>

call_update_blend_mode ==
    /\ cache_idle
    /\ \E arg \in HarnessBlendModes :
        LET r == update_blend_mode(glcache, arg)
        IN /\ glcache' = r.cache
           /\ last_call' = CallRecord("blend_mode", arg, r.changed)
           /\ called' = [called EXCEPT !.blend_mode = Some(arg)]
    /\ UNCHANGED <<hierarchy, renderer, gl, control>>

call_update_program ==
    /\ cache_idle
    /\ \E arg \in HarnessPrograms :
        LET r == update_program(glcache, arg)
        IN /\ glcache' = r.cache
           /\ last_call' = CallRecord("program", arg, r.changed)
           /\ called' = [called EXCEPT !.program = Some(arg)]
    /\ UNCHANGED <<hierarchy, renderer, gl, control>>

call_update_albedo ==
    /\ cache_idle
    /\ \E arg \in TexIndices :
        LET r == update_albedo(glcache, arg)
        IN /\ glcache' = r.cache
           /\ last_call' = CallRecord("albedo", arg, r.changed)
           /\ called' = [called EXCEPT !.albedo = Some(arg)]
    /\ UNCHANGED <<hierarchy, renderer, gl, control>>

(***************************************************************************)
(* Initial states and specifications.                                      *)
(***************************************************************************)
\* node data that does not steer the traversal
BlendAssignments == {[n \in Nodes |-> IF n % 2 = 1 THEN "Normal" ELSE "Multiply"]}

TexAssignments ==
    {[n \in Nodes |-> [tex_albedo |-> n % (MaxTex + 1), tex_bumpmap |-> 0,
                       tex_emissive |-> 0]]}

\* the viewport passed to OpenglRenderer::new
NewViewports == {<<1, 1>>}

KindsOf(comps, plain) ==
    [n \in Nodes |->
        IF n \in comps THEN "Composite" ELSE IF n \in plain THEN "Node" ELSE "Part"]

\* what the hierarchy answers to zsorted_root() and zsorted_child(id), over
\* every ownership tree
Orders(comps, kinds) ==
    {[root |-> zsorted_root(parent, kinds),
      child |-> [n \in Nodes |->
                   IF n \in comps THEN zsorted_child(parent, n) ELSE <<>>]] :
        parent \in Trees}

\* the mask references of a hierarchy, listed owner by owner
MaskLists(owners, n) ==
    {refs \in SeqsUpTo([owner : owners, source : Nodes, mode : MaskModes], n) :
        \A i \in 1..(Len(refs) - 1) : refs[i].owner <= refs[i + 1].owner}

Sources(refs) == {refs[i].source : i \in 1..Len(refs)}

InitHierarchy(comps, plain, order, refs) ==
    /\ kind = KindsOf(comps, plain)
    /\ masks = [n \in Nodes |-> MasksOf(refs, n)]
    /\ zroot = order.root
    /\ zchild = order.child

\* every hierarchy with at most MaxRefs composites and mask references, and at
\* most one node that is neither part nor composite (one that a mask names: any
\* other draws nothing and is named nowhere)
Hierarchies ==
    \E comps \in SUBSET Nodes :
      /\ Cardinality(comps) <= MaxRefs
      /\ \E plain \in {{}} \cup {{n} : n \in Nodes \ comps} :
           \E order \in Orders(comps, KindsOf(comps, plain)) :
             \E refs \in MaskLists(Nodes \ (comps \cup plain),
                                   MaxRefs - Cardinality(comps)) :
               /\ plain \subseteq Sources(refs)
               /\ InitHierarchy(comps, plain, order, refs)

\* the hierarchies with MaxRefs composites and one mask reference that names a
\* composite
NestedHierarchies ==
    \E comps \in SUBSET Nodes :
      /\ Cardinality(comps) = MaxRefs
      /\ \E order \in Orders(comps, KindsOf(comps, {})) :
           \E refs \in MaskLists(Nodes \ comps, 1) :
             /\ Len(refs) = 1
             /\ Sources(refs) \subseteq comps
             /\ InitHierarchy(comps, {}, order, refs)

\* the fields before OpenglRenderer::new; viewport is the argument of new
InitRendererAt(viewports) ==
    /\ camera = CameraDefault
    /\ viewport \in viewports
    /\ cache = GlCacheDefault
    /\ is_compositing = FALSE
    /\ part_bufs = <<>>
    /\ composite_bufs = <<>>
    /\ textures = <<>>
    /\ nodes_zsorted = <<>>
    /\ nodes_draw_info = [n \in Nodes |-> NoDrawInfo]
    /\ gl = GlInit
    /\ stack = <<>>
    /\ trace = <<>>
    /\ last_draw = NoDraw
    /\ last_step = NoStep

InitRenderer == InitRendererAt(NewViewports)

InitHarness ==
    /\ glcache = GlCacheDefault
    /\ called = NeverCalled
    /\ last_call = NoCall

Init ==
    /\ Hierarchies
    /\ mesh \in MeshSizes
    /\ blend_mode \in BlendAssignments
    /\ part_tex \in TexAssignments
    /\ model_textures = AllTexturesOk
    /\ InitRenderer
    /\ InitHarness
    /\ status = "unconstructed"

Next ==
    \/ new
    \/ upload_textures
    \/ draw_model
    \/ draw_model_loop
    \/ draw_part_begin_mask
    \/ draw_part_mask
    \/ draw_part_mask_end
    \/ draw_part
    \/ draw_composite
    \/ draw_composite_begin
    \/ draw_composite_child
    \/ draw_composite_end
    \/ draw_composite_quad

Spec == Init /\ [][Next]_vars

\* the same renderer over the hierarchies in which a mask names a composite
InitNested ==
    /\ NestedHierarchies
    /\ mesh \in MeshSizes
    /\ blend_mode \in BlendAssignments
    /\ part_tex \in TexAssignments
    /\ model_textures = AllTexturesOk
    /\ InitRenderer
    /\ InitHarness
    /\ status = "unconstructed"

SpecNested == InitNested /\ [][Next]_vars

\* a hierarchy of top-level parts without masks
FlatHierarchy ==
    \E order \in Orders({}, KindsOf({}, {})) : InitHierarchy({}, {}, order, <<>>)

\* construction, then camera assignments, resize and draw_model in any order
InitCamera ==
    /\ FlatHierarchy
    /\ mesh \in MeshSizes
    /\ blend_mode \in BlendAssignments
    /\ part_tex \in TexAssignments
    /\ model_textures = AllTexturesOk
    /\ InitRenderer
    /\ InitHarness
    /\ status = "unconstructed"

NextCamera ==
    \/ new
    \/ upload_textures
    \/ set_camera
    \/ call_resize
    \/ draw_model
    \/ draw_model_loop
    \/ draw_part

SpecCamera == InitCamera /\ [][NextCamera]_vars

\* construction at any viewport, then any sequence of set_blend_mode calls
InitBlend ==
    /\ FlatHierarchy
    /\ mesh \in MeshSizes
    /\ blend_mode \in BlendAssignments
    /\ part_tex \in TexAssignments
    /\ model_textures = AllTexturesOk
    /\ InitRendererAt(Viewports)
    /\ InitHarness
    /\ status = "unconstructed"

NextBlend ==
    \/ new
    \/ upload_textures
    \/ call_set_blend_mode

SpecBlend == InitBlend /\ [][NextBlend]_vars

\* the texture indices of the parts, in every rotation
TexRotations ==
    {[n \in Nodes |-> [tex_albedo |-> (n + k) % (MaxTex + 1), tex_bumpmap |-> 0,
                       tex_emissive |-> 0]] : k \in 0..MaxTex}

\* a model texture list with any outcome for each texture, then frames
InitTextures ==
    /\ FlatHierarchy
    /\ mesh \in MeshSizes
    /\ blend_mode \in BlendAssignments
    /\ part_tex \in TexRotations
    /\ model_textures \in [1..(MaxTex + 1) -> TextureOutcomes]
    /\ InitRenderer
    /\ InitHarness
    /\ status = "unconstructed"

NextTextures ==
    \/ new
    \/ upload_textures
    \/ draw_model
    \/ draw_model_loop
    \/ draw_part

SpecTextures == InitTextures /\ [][NextTextures]_vars

\* a fresh GlCache and any sequence of update calls
InitCache ==
    /\ kind = [n \in Nodes |-> "Node"]
    /\ masks = [n \in Nodes |-> <<>>]
    /\ zroot = <<>>
    /\ zchild = [n \in Nodes |-> <<>>]
    /\ mesh = [n \in Nodes |-> 3 * n]
    /\ blend_mode \in BlendAssignments
    /\ part_tex \in TexAssignments
    /\ model_textures = AllTexturesOk
    /\ InitRenderer
    /\ InitHarness
    /\ status = "cache"

NextCache ==
    \/ call_update_camera
    \/ call_update_viewport
    \/ call_update_blend_mode
    \/ call_update_program
    \/ call_update_albedo

SpecCache == InitCache /\ [][NextCache]_vars

(***************************************************************************)
(* Properties.                                                             *)
(***************************************************************************)

\* C1: on a fresh cache, every update_camera / update_viewport /
\* update_blend_mode / update_program / update_albedo call returns true exactly
\* when it is the first call for its field or its argument differs from the
\* argument of the previous call for that field, and after the call the field
\* holds the argument.
C1_CacheReportsChange ==
    last_call.field # "none" =>
        /\ last_call.returned <=> (last_call.first \/ last_call.differs)
        /\ glcache[last_call.field] = called[last_call.field]

\* a camera call that repeats the previous camera and returns false, after
\* every other field has been set
C1_Witness ==
    /\ last_call.field = "camera"
    /\ ~last_call.first /\ ~last_call.differs /\ ~last_call.returned
    /\ \A f \in {"viewport", "blend_mode", "program", "albedo"} : called[f] # None

\* C2: for a part p whose mask list is one Mask-mode reference to a part a, the
\* content draw of p finds stencil value 1 on the pixels a covers, runs under
\* stencil test EQUAL 1 with stencil writes disabled, and colours exactly those
\* of p's pixels that a covers.
C2_MaskKeepsInside ==
    \A p \in Nodes :
        (/\ last_draw.what = "part" /\ last_draw.node = p /\ ~last_draw.is_mask
         /\ Len(masks[p]) = 1
         /\ masks[p][1].mode = "Mask"
         /\ kind[masks[p][1].source] = "Part") =>
            LET a == masks[p][1].source
                g == last_draw.gl
            IN /\ g.stencil_test
               /\ g.stencil_func = "EQUAL" /\ g.stencil_ref = 1
               /\ g.stencil_mask = 0
               /\ \A px \in PixelClasses :
                    a \in px => g.stencil[g.draw_framebuffer][px] = 1
               /\ \A px \in PixelClasses :
                    p \in px => last_draw.color[px] = IF a \in px THEN "yes" ELSE "no"

\* C3: for a part p whose mask list is one Dodge-mode reference to a part a, the
\* content draw of p colours exactly those of p's pixels that a does not cover.
C3_DodgeKeepsOutside ==
    \A p \in Nodes :
        (/\ last_draw.what = "part" /\ last_draw.node = p /\ ~last_draw.is_mask
         /\ Len(masks[p]) = 1
         /\ masks[p][1].mode = "Dodge"
         /\ kind[masks[p][1].source] = "Part") =>
            LET a == masks[p][1].source
            IN \A px \in PixelClasses :
                 p \in px => last_draw.color[px] = IF a \in px THEN "no" ELSE "yes"

\* C4: the compositing flag goes from false to true only in begin_composite
\* called while it is false, and from true to false only in end_composite
\* called while it is true; begin_composite called while the flag is true and
\* end_composite called while it is false issue no GL call and leave the flag,
\* the cache and every other field of the renderer unchanged.
C4_CompositingFlag ==
    [][LET at_begin == status = "drawing" /\ Top.fn = "draw_composite" /\ Top.pc = "begin"
           at_end == /\ status = "drawing"
                     /\ Top.fn = "draw_composite" /\ Top.pc = "children"
                     /\ Top.i > Len(nodes_draw_info[Top.node].children)
       IN /\ (~is_compositing /\ is_compositing') => at_begin
          /\ (is_compositing /\ ~is_compositing') => at_end
          /\ (at_begin /\ ~is_compositing) => is_compositing'
          /\ (at_end /\ is_compositing) => ~is_compositing'
          /\ ((at_begin /\ is_compositing) \/ (at_end /\ ~is_compositing)) =>
                /\ gl' = gl
                /\ renderer' = renderer]_vars

\* an end_composite called while the flag is false (after a begin_composite
\* called while it was true, and the end_composite that matched it)
C4_Witness ==
    /\ last_step.op = "end_composite"
    /\ ~last_step.was_compositing
    /\ status = "drawing"

\* C5: while the children of the outermost composite on the call stack are
\* being drawn, a composite dispatched in between changes nothing for it: the
\* flag stays true and the composite framebuffer stays the draw target until
\* that composite's own end_composite.
C5_NestedCompositeIsNoOp ==
    \A i \in 1..Len(stack) :
        (/\ stack[i].fn = "draw_composite"
         /\ stack[i].pc = "children"
         /\ \A j \in 1..(i - 1) : stack[j].fn # "draw_composite") =>
            /\ is_compositing
            /\ gl.draw_framebuffer = "composite_framebuffer"

\* C6: draw_composite of a composite whose filtered child list is empty returns
\* at once: no GL call, the compositing flag and the cache unchanged.
C6_EmptyCompositeIsSkipped ==
    [][(/\ status = "drawing"
        /\ Top.fn = "draw_composite" /\ Top.pc = "enter"
        /\ nodes_draw_info[Top.node].children = <<>>) =>
            /\ gl' = gl
            /\ cache' = cache
            /\ is_compositing' = is_compositing
            /\ stack' = Pop
            /\ trace' = trace]_vars

\* a composite whose filtered child list is empty has been dispatched
C6_Witness ==
    /\ last_step.op = "draw_composite"
    /\ nodes_draw_info[last_step.node].children = <<>>
    /\ zchild[last_step.node] = <<last_step.node>>
    /\ Len(gl.calls) > 0

\* C7: after construction no composite's draw descriptor lists the composite
\* itself as a child, and draw_composite never calls draw_composite of its own
\* node.
C7_NoSelfChild ==
    /\ \A c \in Nodes :
         nodes_draw_info[c].tag = "Composite" =>
            \A i \in 1..Len(nodes_draw_info[c].children) :
                nodes_draw_info[c].children[i] # c
    /\ \A i \in 1..(Len(stack) - 1) :
         ~(/\ stack[i].fn = "draw_composite"
           /\ stack[i + 1].fn = "draw_composite"
           /\ stack[i + 1].node = stack[i].node)

\* a composite that the hierarchy lists among its own children has drawn all of
\* its children
C7_Witness ==
    /\ last_step.op = "end_composite"
    /\ \E i \in 1..Len(zchild[last_step.node]) : zchild[last_step.node][i] = last_step.node
    /\ Len(nodes_draw_info[last_step.node].children) >= 2

C9_OffsetsFromZero ==
    (/\ status # "unconstructed"
     /\ Len(nodes_zsorted) = 1
     /\ nodes_draw_info[nodes_zsorted[1]].tag = "Composite"
     /\ Len(nodes_draw_info[nodes_zsorted[1]].children) >= 2) =>
        LET x == nodes_draw_info[nodes_zsorted[1]].children[1]
            y == nodes_draw_info[nodes_zsorted[1]].children[2]
        IN (kind[x] = "Part" /\ kind[y] = "Part") =>
            /\ nodes_draw_info[x].index_offset = 0
            /\ nodes_draw_info[y].index_offset = mesh[x]

\* C9, amended: the composite region starts with the 6 indices of the quad, so
\* x's mesh is at index offset 6 and y's at 6 plus x's index count; the region
\* holds x's and y's meshes at these offsets.
C9_OffsetsAfterQuad ==
    (/\ status # "unconstructed"
     /\ Len(nodes_zsorted) = 1
     /\ nodes_draw_info[nodes_zsorted[1]].tag = "Composite"
     /\ Len(nodes_draw_info[nodes_zsorted[1]].children) >= 2) =>
        LET x == nodes_draw_info[nodes_zsorted[1]].children[1]
            y == nodes_draw_info[nodes_zsorted[1]].children[2]
        IN (kind[x] = "Part" /\ kind[y] = "Part") =>
            /\ nodes_draw_info[x].index_offset = 6
            /\ nodes_draw_info[y].index_offset = 6 + mesh[x]
            /\ ExactMesh(composite_bufs, Quad, 6, 0)
            /\ ExactMesh(composite_bufs, x, mesh[x], 6)
            /\ ExactMesh(composite_bufs, y, mesh[y], 6 + mesh[x])

\* the second part child of the composite of a root list [c] has been drawn
\* from the composite region, at the offset of its descriptor
C9_Witness ==
    /\ Len(nodes_zsorted) = 1
    /\ nodes_draw_info[nodes_zsorted[1]].tag = "Composite"
    /\ Len(nodes_draw_info[nodes_zsorted[1]].children) >= 2
    /\ kind[nodes_draw_info[nodes_zsorted[1]].children[1]] = "Part"
    /\ last_draw.what = "part"
    /\ last_draw.node = nodes_draw_info[nodes_zsorted[1]].children[2]
    /\ last_draw.is_composite_child /\ last_draw.exact
    /\ last_draw.offset = 6 + mesh[nodes_draw_info[nodes_zsorted[1]].children[1]]

\* C10: after construction every part's mesh is in exactly one region, once:
\* the composite region when some composite's child list holds the part, the
\* root region otherwise; the part's descriptor holds the offset of the mesh in
\* that region.
C10_OneRegionPerPart ==
    status # "unconstructed" =>
        \A p \in Nodes :
            kind[p] = "Part" =>
                LET in_child_list ==
                        \E c \in Nodes \ {p} :
                            /\ kind[c] = "Composite"
                            /\ \E i \in 1..Len(zchild[c]) : zchild[c][i] = p
                    pushes(buf) == Cardinality({i \in 1..Len(buf) : buf[i].owner = p})
                    region == IF in_child_list THEN composite_bufs ELSE part_bufs
                    other == IF in_child_list THEN part_bufs ELSE composite_bufs
                IN /\ pushes(region) = 1
                   /\ pushes(other) = 0
                   /\ nodes_draw_info[p].tag = "Part"
                   /\ ExactMesh(region, p, mesh[p], nodes_draw_info[p].index_offset)

\* a constructed renderer with meshes of parts in both regions
C10_Witness ==
    /\ status = "constructed"
    /\ Len(part_bufs) >= 1
    /\ Len(composite_bufs) >= 3

\* C11: every resize(w, h) stores (w, h) as the viewport and uploads the
\* projection matrix of the camera and (w, h) to each of the four shader
\* programs, whatever the cache holds.
C11_ResizeAlwaysUploads ==
    last_step.op = "resize" =>
        /\ viewport = last_step.arg
        /\ gl.viewport = Some(last_step.arg)
        /\ \A p \in Programs : gl.mvp[p] = Some(matrix(camera, viewport))
        /\ Cardinality({i \in 1..Len(gl.calls) : gl.calls[i] = "uniform_matrix"}) = 4

\* C12: a draw_model called while every shader program holds the projection
\* matrix of the current camera and viewport uploads no projection matrix and
\* binds no shader for it.
C12_NoSpuriousUpload ==
    [][(/\ status = "idle" /\ status' = "drawing"
        /\ \A p \in Programs : gl.mvp[p] = Some(matrix(camera, viewport))) =>
            \A i \in 1..Len(gl'.calls) :
                gl'.calls[i] \notin {"uniform_matrix", "use_program"}]_vars

\* C13: set_blend_mode maps each of the seven blend modes to one fixed
\* (equation, source factor, destination factor) triple, whatever mode was set
\* before; no other mode has the same triple; the equation is FUNC_SUBTRACT
\* for SliceFromLower and for no other mode.
C13_BlendMapping ==
    last_step.op = "set_blend_mode" =>
        LET on_gpu == [equation |-> gl.blend_equation, src |-> gl.blend_src,
                       dst |-> gl.blend_dst]
        IN /\ on_gpu = blend_config(last_step.arg)
           /\ \A other \in BlendModes \ {last_step.arg} : blend_config(other) # on_gpu
           /\ (on_gpu.equation = "FUNC_SUBTRACT") <=> (last_step.arg = "SliceFromLower")
           /\ on_gpu.equation \in {"FUNC_ADD", "FUNC_SUBTRACT"}

\* SliceFromLower set after Screen, and both blend calls issued
C13_Witness ==
    /\ last_step.op = "set_blend_mode"
    /\ last_step.arg = "SliceFromLower"
    /\ last_step.prev = Some("Screen")
    /\ gl.calls = <<"blend_equation", "blend_func">>

\* C14: during draw_model a node id without a draw descriptor is skipped and
\* the frame goes on, whether the id comes from the draw order, from a
\* composite's child list or from a part's mask reference; the draw never
\* panics on it.
C14_MissingDescriptorIsSkipped ==
    [][/\ (/\ status = "drawing" /\ Top.fn = "draw_model"
           /\ Top.i <= Len(nodes_zsorted)
           /\ nodes_draw_info[nodes_zsorted[Top.i]].tag = "Absent") =>
              /\ status' = "drawing"
              /\ stack' = Replace([Top EXCEPT !.i = @ + 1])
       /\ (/\ status = "drawing" /\ Top.fn = "draw_composite" /\ Top.pc = "children"
           /\ Top.i <= Len(nodes_draw_info[Top.node].children)
           /\ nodes_draw_info[nodes_draw_info[Top.node].children[Top.i]].tag = "Absent") =>
              /\ status' = "drawing"
              /\ stack' = Replace([Top EXCEPT !.i = @ + 1])
       /\ (/\ status = "drawing" /\ Top.fn = "draw_part" /\ Top.pc = "masks"
           /\ Top.i <= Len(masks[Top.node])
           /\ nodes_draw_info[masks[Top.node][Top.i].source].tag = "Absent") =>
              status' = "drawing"]_vars

\* C15: after upload_model_textures every texture of the list that decodes and
\* uploads without error is stored, whatever happens to the other textures of
\* the list.
C15_TextureFailureIsLocal ==
    last_step.op = "upload_model_textures" =>
        \A i \in 1..Len(model_textures) :
            model_textures[i] = "ok" =>
                \E k \in 1..Len(textures) : textures[k] = <<"texture", i - 1>>

\* C16: draw_model terminates: its recursion never enters a node whose draw is
\* already on the call stack (from there the same calls would repeat without
\* end), and the call stack never overflows.
C16_DrawModelTerminates ==
    /\ status # "stack_overflow"
    /\ \A i, j \in 2..Len(stack) : i # j => stack[i].node # stack[j].node

\* C17: the draw of a part with a non-empty mask list is issued with stencil
\* testing enabled, stencil function EQUAL with reference 1 and stencil write
\* mask 0.
C17_ContentStencilState ==
    (last_draw.what = "part" /\ last_draw.masked) =>
        /\ last_draw.gl.stencil_test
        /\ last_draw.gl.stencil_func = "EQUAL"
        /\ last_draw.gl.stencil_ref = 1
        /\ last_draw.gl.stencil_mask = 0

\* C18: the draw of a part with is_mask = true is issued with colour writes
\* disabled, stencil function ALWAYS with reference 1 for a Mask reference and
\* 0 for a Dodge reference, stencil operation REPLACE and stencil write mask
\* 0xff.
C18_MaskSourceStencilState ==
    (/\ status = "drawing"
     /\ last_step.op = "draw_part"
     /\ last_draw.what = "part" /\ last_draw.node = last_step.node
     /\ last_draw.is_mask) =>
        /\ Top.fn = "draw_part" /\ Top.pc = "mask_ret"
        /\ ~last_draw.gl.color_mask
        /\ last_draw.gl.stencil_func = "ALWAYS"
        /\ last_draw.gl.stencil_ref =
              (IF masks[Top.node][Top.i].mode = "Mask" THEN 1 ELSE 0)
        /\ last_draw.gl.stencil_op = "REPLACE"
        /\ last_draw.gl.stencil_mask = FullMask

\* C19: when draw_part of a part with masks has returned, stencil testing is
\* disabled, the stencil write mask is 0xff and the stencil function is ALWAYS;
\* every draw of a part without masks with is_mask = false, and every draw of
\* a composite's quad, is issued with stencil testing disabled and colour
\* writes enabled.
C19_StencilStateRestored ==
    /\ (/\ status \in {"drawing", "idle"}
        /\ last_step.op = "draw_part"
        /\ masks[last_step.node] # <<>>) =>
            /\ ~gl.stencil_test
            /\ gl.stencil_mask = FullMask
            /\ gl.stencil_func = "ALWAYS"
    /\ (\/ last_draw.what = "quad"
        \/ last_draw.what = "part" /\ ~last_draw.masked /\ ~last_draw.is_mask) =>
            /\ ~last_draw.gl.stencil_test
            /\ last_draw.gl.color_mask

\* C20: every draw of a part and of a composite's quad is issued with the
\* blend equation and factors that the blend-mode mapping gives for the
\* node's blend mode, and the blend configuration of the context is always
\* the one of the cached blend mode.
C20_BlendStateMatchesMode ==
    /\ last_draw.what \in {"part", "quad"} =>
          [equation |-> last_draw.gl.blend_equation, src |-> last_draw.gl.blend_src,
           dst |-> last_draw.gl.blend_dst] = blend_config(blend_mode[last_draw.node])
    /\ cache.blend_mode # None =>
          [equation |-> gl.blend_equation, src |-> gl.blend_src,
           dst |-> gl.blend_dst] = blend_config(cache.blend_mode[1])

\* C21: every draw of a part is issued with the part's albedo, bump and
\* emissive textures bound on texture units 0, 1 and 2, and the texture on
\* unit 0 is always the one of the cached albedo index.
C21_TexturesMatchPart ==
    /\ last_draw.what = "part" =>
          LET part == part_tex[last_draw.node]
          IN /\ last_draw.gl.textures[0] = Some(textures[part.tex_albedo + 1])
             /\ last_draw.gl.textures[1] = Some(textures[part.tex_bumpmap + 1])
             /\ last_draw.gl.textures[2] = Some(textures[part.tex_emissive + 1])
    /\ (status \in {"idle", "drawing"} /\ cache.albedo # None) =>
          gl.textures[0] = Some(textures[cache.albedo[1] + 1])

\* C22: every draw of a part, the draws of mask sources included, is issued
\* with the geometry region bound into which the part's mesh was pushed at
\* construction, so that the index offset of its descriptor and its index count
\* address the part's own mesh.
C22_GeometryMatchesPart ==
    last_draw.what = "part" =>
        LET bound == Bufs[last_draw.gl.vertex_array[1]]
        IN /\ \E i \in 1..Len(bound) : bound[i].owner = last_draw.node
           /\ ExactMesh(bound, last_draw.node, last_draw.count, last_draw.offset)
           /\ last_draw.exact

\* C23: after upload_model_textures on a fresh renderer, every model texture
\* that decoded and uploaded is the renderer's texture at its own list
\* position, whatever happened to the other textures of the list.
C23_TextureIndexKept ==
    last_step.op = "upload_model_textures" =>
        \A i \in 1..Len(model_textures) :
            model_textures[i] = "ok" =>
                /\ i <= Len(textures)
                /\ textures[i] = <<"texture", i - 1>>

====
